---------------------------- MODULE Spec2Model ----------------------------
(***************************************************************************)
(* SendGrid webhook -> Salesforce batcher (src/server.js).                 *)
(*                                                                         *)
(* The process keeps one open batch (eventBatch) and one timer reference   *)
(* (batchTimer).  The webhook handler appends the posted events and        *)
(* either flushes (processBatch) or arms the timer.  processBatch detaches *)
(* the open batch synchronously and then reconciles it against the remote  *)
(* store through a chain of awaited remote calls (login, EmailMessage      *)
(* query/update, Lead query/update); every await is a point where other    *)
(* handlers, timers and other flushes may run.                             *)
(*                                                                         *)
(* src/server.js holds two variants of the program one after the other     *)
(* (lines 1-297 and 299-668).  The accumulator (handler, detach, timer) is *)
(* the same text in both; the reconciliation modelled here is the first    *)
(* variant (Lead only).                                                    *)
(***************************************************************************)
EXTENDS Integers, Sequences, FiniteSets, TLC

(***************************************************************************)
(* Program constants and bounds of the model.                              *)
(***************************************************************************)
BATCH_SIZE == 100
\* Length to which the clicked-URL list is cut: substring(0, 255).
LINKS_MAX == 255

\* JS null / undefined of a numeric or date valued field.
NULL == -1
\* JS null / undefined of a string valued field.
NullStr == "null"

\* Number of webhook requests in a run.
MaxRequests == 2
\* Number of batches detached in a run.
MaxFlushes == 2
\* Value the remote counters may hold at the start.
InitCount == 5
\* Longest batch of the reconciliation runs that start from a drawn batch.
MaxFoldLen == 2

(***************************************************************************)
(* Request bodies.  A body is either not an array, or an array whose       *)
(* elements are JSON objects or JSON null.                                 *)
(***************************************************************************)
RawEvent(email, event, timestamp, url, sg_message_id) ==
    [json |-> "object", email |-> email, event |-> event,
     timestamp |-> timestamp, url |-> url, reason |-> NullStr,
     sg_message_id |-> sg_message_id]

RawNull ==
    [json |-> "null", email |-> NullStr, event |-> NullStr,
     timestamp |-> NULL, url |-> NullStr, reason |-> NullStr,
     sg_message_id |-> NullStr]

Rep(e, n) == [i \in 1..n |-> e]

BodyIds == {"object", "empty", "open", "openclick", "withnull", "almost"}

IsArray(b) == b # "object"

Elements(b) ==
    CASE b = "empty"     -> << >>
      [] b = "open"      -> << RawEvent("a@x.com", "open", 2, NullStr, "m1") >>
      [] b = "openclick" -> << RawEvent("a@x.com", "open", 3, NullStr, "m1"),
                               RawEvent("a@x.com", "open", 1, NullStr, "m1"),
                               RawEvent("a@x.com", "click", 4, "/p", "m1") >>
      [] b = "withnull"  -> << RawEvent("b@x.com", "open", 2, NullStr, NullStr),
                               RawNull >>
      [] b = "almost"    -> Rep(RawEvent("b@x.com", "open", 2, NullStr, NullStr),
                                BATCH_SIZE - 1)
      [] OTHER           -> << >>

VARIABLES
    eventBatch,   \* the open batch: sequence of canonical events
    batchTimer,   \* NULL, or the handle returned by the last setTimeout
    pending,      \* handles of the timers that are scheduled and not yet fired
    flushes,      \* the processBatch invocations that detached a batch, in order
    sfEmailMessage, \* remote store: the EmailMessage records, by Id
    sfLead,       \* remote store: the Lead records, by Id
    nPushed,      \* history: number of events ever pushed to eventBatch
    nReq,         \* history: number of webhook requests handled
    lastBody,     \* history: body of the last webhook request
    lastStatus    \* history: status code of the last response

vars == << eventBatch, batchTimer, pending, flushes, sfEmailMessage, sfLead,
           nPushed, nReq, lastBody, lastStatus >>


(***************************************************************************)
(* Small helpers for JS values.                                            *)
(***************************************************************************)
\* x || 0
OrZero(x) == IF x = NULL THEN 0 ELSE x
\* s || null
OrNull(s) == IF s = "" THEN NullStr ELSE s
\* new Date(timestamp * 1000), as milliseconds since the epoch
DateOf(timestamp) == timestamp * 1000

EmptyMap == [k \in {} |-> 0]

(***************************************************************************)
(* The webhook handler's appends (events.forEach(event => push({...}))).   *)
(* Reading event.email of a JSON null element throws; the elements before  *)
(* it have been pushed by then.  seq is a history field: the position of   *)
(* the event in the order of all pushes.                                   *)
(***************************************************************************)
Canonical(raw, n) ==
    [email |-> raw.email, eventType |-> raw.event, timestamp |-> raw.timestamp,
     url |-> OrNull(raw.url), reason |-> OrNull(raw.reason),
     sg_message_id |-> raw.sg_message_id, seq |-> n]

Throws(b) == \E i \in 1..Len(Elements(b)) : Elements(b)[i].json = "null"

\* Number of elements pushed before forEach ends or throws.
NumPushed(b) ==
    IF Throws(b)
    THEN (CHOOSE i \in 1..Len(Elements(b)) :
             /\ Elements(b)[i].json = "null"
             /\ \A j \in 1..(i-1) : Elements(b)[j].json # "null") - 1
    ELSE Len(Elements(b))

Pushed(b, base) == [i \in 1..NumPushed(b) |-> Canonical(Elements(b)[i], base + i)]

(***************************************************************************)
(* Timers.  A handle is a positive number; setTimeout returns a handle not *)
(* in use.  clearTimeout of null or of a fired handle does nothing.        *)
(***************************************************************************)
NewHandle(pend) == CHOOSE h \in 1..(Cardinality(pend) + 1) : h \notin pend

ClearTimeout(pend, h) == pend \ {h}

(***************************************************************************)
(* processBatch up to its first await: the detach.                         *)
(* eb is eventBatch and pend the pending timers when it is called.         *)
(***************************************************************************)
NewFlush(batch) ==
    [batch |-> batch, pc |-> "login", calls |-> << "login" >>, error |-> "none",
     eventsByMessageId |-> EmptyMap, eventsByEmail |-> EmptyMap,
     emailMessageUpdates |-> EmptyMap, leadsRead |-> EmptyMap,
     leadUpdates |-> EmptyMap]

\* processBatch without its "eventBatch = []".
ProcessBatch_NoReset(eb, pend) ==
    /\ pending' = pend
    /\ IF Len(eb) = 0
       THEN /\ eventBatch' = eb
            /\ UNCHANGED << batchTimer, flushes >>
       ELSE /\ eventBatch' = eb
            /\ batchTimer' = NULL
            /\ flushes' = Append(flushes, NewFlush(eb))

\* processBatch without "if (eventBatch.length === 0) return".
ProcessBatch_NoEmptyCheck(eb, pend) ==
    /\ pending' = pend
    /\ eventBatch' = << >>
    /\ batchTimer' = NULL
    /\ flushes' = Append(flushes, NewFlush(eb))

ProcessBatch(eb, pend) ==
    /\ pending' = pend
    /\ IF Len(eb) = 0
       THEN /\ eventBatch' = eb
            /\ UNCHANGED << batchTimer, flushes >>
       ELSE /\ eventBatch' = << >>
            /\ batchTimer' = NULL
            /\ flushes' = Append(flushes, NewFlush(eb))

(***************************************************************************)
(* app.post('/webhook/sendgrid')                                           *)
(***************************************************************************)
\* if (!Array.isArray(events)) return res.status(400).send('Invalid payload'),
\* with the batch check run before that return.
InvalidPayload_AfterBatchCheck ==
    /\ lastStatus' = 400
    /\ IF batchTimer = NULL
       THEN /\ batchTimer' = NewHandle(pending)
            /\ pending' = pending \cup {NewHandle(pending)}
       ELSE UNCHANGED << batchTimer, pending >>
    /\ UNCHANGED << eventBatch, flushes, nPushed >>

\* if (!Array.isArray(events)) return res.status(400).send('Invalid payload')
InvalidPayload ==
    /\ lastStatus' = 400
    /\ UNCHANGED << eventBatch, batchTimer, pending, flushes, nPushed >>

\* res.status(200).send('OK') made to wait for the flushes: a failed flush
\* turns the answer into a 500.
RespondOK_AfterFlushes ==
    lastStatus' = IF \E f \in 1..Len(flushes) : flushes[f].pc = "failed"
                  THEN 500 ELSE 200

\* res.status(200).send('OK')
RespondOK == lastStatus' = 200

\* catch (error) { res.status(500).send('Internal error') }
RespondInternalError == lastStatus' = 500

WebhookSendgrid(b) ==
    /\ nReq < MaxRequests
    /\ Len(flushes) < MaxFlushes
    /\ nReq' = nReq + 1
    /\ lastBody' = b
    /\ UNCHANGED << sfEmailMessage, sfLead >>
    /\ IF ~IsArray(b)
       THEN InvalidPayload
       ELSE LET new == Pushed(b, nPushed)
                eb == eventBatch \o new
            IN  /\ nPushed' = nPushed + Len(new)
                /\ IF Throws(b)
                   THEN /\ RespondInternalError
                        /\ eventBatch' = eb
                        /\ UNCHANGED << batchTimer, pending, flushes >>
                   ELSE /\ RespondOK
                        /\ IF Len(eb) >= BATCH_SIZE
                           THEN ProcessBatch(eb, ClearTimeout(pending, batchTimer))
                           ELSE IF batchTimer = NULL
                           THEN /\ batchTimer' = NewHandle(pending)
                                /\ pending' = pending \cup {NewHandle(pending)}
                                /\ eventBatch' = eb
                                /\ UNCHANGED flushes
                           ELSE /\ eventBatch' = eb
                                /\ UNCHANGED << batchTimer, pending, flushes >>

(***************************************************************************)
(* The timer set by setTimeout(processBatch, BATCH_TIMEOUT) fires.         *)
(***************************************************************************)
TimerFire(h) ==
    /\ h \in pending
    /\ ProcessBatch(eventBatch, pending \ {h})
    /\ UNCHANGED << sfEmailMessage, sfLead, nPushed, nReq, lastBody, lastStatus >>

(***************************************************************************)
(* The fold of a detached batch (batch.forEach), as two maps.              *)
(***************************************************************************)
IsBounce(event) == event.eventType = "bounce" \/ event.eventType = "dropped"

NoBounce == [timestamp |-> NULL, reason |-> NullStr]

NewMsgData(event) ==
    [messageId |-> event.sg_message_id, email |-> event.email,
     opens |-> << >>, clicks |-> << >>, bounce |-> NoBounce]

\* The per-message step with "bounceDate >= msgData.bounce.timestamp": a
\* bounce at the timestamp of the kept one replaces it.
MsgStep_LaterTieWins(msgData, event) ==
    IF event.eventType = "open"
    THEN [msgData EXCEPT !.opens = Append(@, [timestamp |-> DateOf(event.timestamp)])]
    ELSE IF event.eventType = "click"
    THEN [msgData EXCEPT !.clicks =
             Append(@, [timestamp |-> DateOf(event.timestamp), url |-> event.url])]
    ELSE IF IsBounce(event)
    THEN IF msgData.bounce.timestamp = NULL
            \/ DateOf(event.timestamp) >= msgData.bounce.timestamp
         THEN [msgData EXCEPT !.bounce =
                  [timestamp |-> DateOf(event.timestamp), reason |-> event.reason]]
         ELSE msgData
    ELSE msgData

MsgStep(msgData, event) ==
    IF event.eventType = "open"
    THEN [msgData EXCEPT !.opens = Append(@, [timestamp |-> DateOf(event.timestamp)])]
    ELSE IF event.eventType = "click"
    THEN [msgData EXCEPT !.clicks =
             Append(@, [timestamp |-> DateOf(event.timestamp), url |-> event.url])]
    ELSE IF IsBounce(event)
    THEN IF msgData.bounce.timestamp = NULL
            \/ DateOf(event.timestamp) > msgData.bounce.timestamp
         THEN [msgData EXCEPT !.bounce =
                  [timestamp |-> DateOf(event.timestamp), reason |-> event.reason]]
         ELSE msgData
    ELSE msgData

\* The per-message iteration without "if (event.sg_message_id)": an event
\* that lacks the id is folded under the key of the missing id.
ByMessageIdStep_NoGuard(m, event) ==
    LET k == event.sg_message_id
    IN  IF k \in DOMAIN m
        THEN [m EXCEPT ![k] = MsgStep(@, event)]
        ELSE m @@ (k :> MsgStep(NewMsgData(event), event))

\* One iteration of batch.forEach on the per-message map.
ByMessageIdStep(m, event) ==
    LET k == event.sg_message_id
    IN  IF k = NullStr \/ k = "" THEN m
        ELSE IF k \in DOMAIN m
        THEN [m EXCEPT ![k] = MsgStep(@, event)]
        ELSE m @@ (k :> MsgStep(NewMsgData(event), event))

\* The iterations lo..hi in order, starting from the map m: those of the
\* first half, then those of the second half on the map the first half left.
RECURSIVE FoldByMessageId(_, _, _, _)
FoldByMessageId(m, batch, lo, hi) ==
    IF lo > hi THEN m
    ELSE IF lo = hi THEN ByMessageIdStep(m, batch[lo])
    ELSE LET mid == (lo + hi) \div 2
         IN  CHOOSE r \in { FoldByMessageId(left, batch, mid + 1, hi) :
                              left \in { FoldByMessageId(m, batch, lo, mid) } } : TRUE

EventsByMessageId(batch) == FoldByMessageId(EmptyMap, batch, 1, Len(batch))

NewEmailData(event) ==
    [email |-> event.email, totalOpens |-> 0, totalClicks |-> 0,
     lastOpenDate |-> NULL, lastClickDate |-> NULL,
     lastBounceDate |-> NULL, bounceReason |-> NullStr]

\* The per-email step without the comparison of dates: the open or click
\* seen last in the batch gives the last date.
EmailStep_LastSeenWins(emailData, event) ==
    LET eventDate == DateOf(event.timestamp)
    IN  IF event.eventType = "open"
        THEN [emailData EXCEPT !.totalOpens = @ + 1, !.lastOpenDate = eventDate]
        ELSE IF event.eventType = "click"
        THEN [emailData EXCEPT !.totalClicks = @ + 1, !.lastClickDate = eventDate]
        ELSE IF IsBounce(event)
        THEN IF emailData.lastBounceDate = NULL \/ eventDate > emailData.lastBounceDate
             THEN [emailData EXCEPT !.lastBounceDate = eventDate,
                                    !.bounceReason = event.reason]
             ELSE emailData
        ELSE emailData

EmailStep(emailData, event) ==
    LET eventDate == DateOf(event.timestamp)
    IN  IF event.eventType = "open"
        THEN [emailData EXCEPT
                 !.totalOpens = @ + 1,
                 !.lastOpenDate = IF @ = NULL \/ eventDate > @ THEN eventDate ELSE @]
        ELSE IF event.eventType = "click"
        THEN [emailData EXCEPT
                 !.totalClicks = @ + 1,
                 !.lastClickDate = IF @ = NULL \/ eventDate > @ THEN eventDate ELSE @]
        ELSE IF IsBounce(event)
        THEN IF emailData.lastBounceDate = NULL \/ eventDate > emailData.lastBounceDate
             THEN [emailData EXCEPT !.lastBounceDate = eventDate,
                                    !.bounceReason = event.reason]
             ELSE emailData
        ELSE emailData

\* One iteration of batch.forEach on the per-email map.
ByEmailStep(m, event) ==
    LET k == event.email
    IN  IF k \in DOMAIN m
        THEN [m EXCEPT ![k] = EmailStep(@, event)]
        ELSE m @@ (k :> EmailStep(NewEmailData(event), event))

RECURSIVE FoldByEmail(_, _, _, _)
FoldByEmail(m, batch, lo, hi) ==
    IF lo > hi THEN m
    ELSE IF lo = hi THEN ByEmailStep(m, batch[lo])
    ELSE LET mid == (lo + hi) \div 2
         IN  CHOOSE r \in { FoldByEmail(left, batch, mid + 1, hi) :
                              left \in { FoldByEmail(m, batch, lo, mid) } } : TRUE

EventsByEmail(batch) == FoldByEmail(EmptyMap, batch, 1, Len(batch))

MinTimestamp(list) ==
    CHOOSE t \in { list[i].timestamp : i \in 1..Len(list) } :
        \A i \in 1..Len(list) : t <= list[i].timestamp

MaxTimestamp(list) ==
    CHOOSE t \in { list[i].timestamp : i \in 1..Len(list) } :
        \A i \in 1..Len(list) : t >= list[i].timestamp

(***************************************************************************)
(* The update objects built from a query result: a map from the fields the *)
(* update carries to their values (the Id is the key under which the       *)
(* update is kept).                                                        *)
(***************************************************************************)
Field(cond, name, value) == IF cond THEN name :> value ELSE EmptyMap

\* s.split('; '): the pieces of s between the occurrences of "; "
RECURSIVE Split(_)
Split(s) ==
    LET at == { i \in 1..(Len(s) - 1) : SubSeq(s, i, i + 1) = "; " }
    IN  IF at = {} THEN << s >>
        ELSE LET i == CHOOSE i \in at : \A j \in at : i <= j
             IN  << SubSeq(s, 1, i - 1) >> \o Split(SubSeq(s, i + 2, Len(s)))

\* [...new Set(list)]: the first occurrence of each element, in order
Unique(list) ==
    LET keep == { i \in 1..Len(list) : \A j \in 1..(i - 1) : list[j] # list[i] }
    IN  [k \in 1..Cardinality(keep) |->
            list[CHOOSE i \in keep : Cardinality({ j \in keep : j <= i }) = k]]

\* list.join('; ')
RECURSIVE Join(_)
Join(list) ==
    IF Len(list) = 0 THEN ""
    ELSE IF Len(list) = 1 THEN list[1]
    ELSE list[1] \o "; " \o Join(Tail(list))

\* s.substring(0, n)
Substring(s, n) == IF Len(s) <= n THEN s ELSE SubSeq(s, 1, n)

\* eventData.clicks.map(c => c.url).filter(u => u)
ClickedUrls(clicks) ==
    LET truthy == { i \in 1..Len(clicks) :
                      clicks[i].url # NullStr /\ clicks[i].url # "" }
    IN  [k \in 1..Cardinality(truthy) |->
            clicks[CHOOSE i \in truthy : Cardinality({ j \in truthy : j <= i }) = k].url]

\* emailMsg.Links_Clicked__c ? emailMsg.Links_Clicked__c.split('; ') : []
ExistingUrls(stored) ==
    IF stored = NullStr \/ stored = "" THEN << >> ELSE Split(stored)

\* The clicked-URL list with the batch's URLs appended as they come, without
\* the second new Set(...).
LinksClicked_NoDedupe(stored, clicks) ==
    Substring(Join(ExistingUrls(stored) \o Unique(ClickedUrls(clicks))), LINKS_MAX)

LinksClicked(stored, clicks) ==
    Substring(Join(Unique(ExistingUrls(stored) \o Unique(ClickedUrls(clicks)))),
              LINKS_MAX)

EmailMessageUpdate(emailMsg, eventData) ==
    LET opened == Len(eventData.opens) > 0
        clicked == Len(eventData.clicks) > 0
        bounced == eventData.bounce.timestamp # NULL
    IN  Field(opened, "Open_Count__c",
              OrZero(emailMsg.Open_Count__c) + Len(eventData.opens))
        @@ Field(opened /\ emailMsg.First_Opened_Date__c = NULL,
                 "First_Opened_Date__c", MinTimestamp(eventData.opens))
        @@ Field(clicked, "Click_Count__c",
                 OrZero(emailMsg.Click_Count__c) + Len(eventData.clicks))
        @@ Field(clicked, "Last_Clicked_Date__c", MaxTimestamp(eventData.clicks))
        @@ Field(clicked, "Links_Clicked__c",
                 LinksClicked(emailMsg.Links_Clicked__c, eventData.clicks))
        @@ Field(bounced, "Bounce_Date__c", eventData.bounce.timestamp)
        @@ Field(bounced, "Bounce_Reason__c", eventData.bounce.reason)

\* emailMessages.records.forEach(...): one update per record with event data
EmailMessageUpdates(records, eventsByMessageId) ==
    [id \in { i \in DOMAIN records :
                 records[i].MessageIdentifier \in DOMAIN eventsByMessageId } |->
        EmailMessageUpdate(records[id],
                           eventsByMessageId[records[id].MessageIdentifier])]

LeadUpdate(rec, eventData) ==
    LET opened == eventData.totalOpens > 0
        clicked == eventData.totalClicks > 0
    IN  Field(opened, "Email_Open_Count__c",
              OrZero(rec.Email_Open_Count__c) + eventData.totalOpens)
        @@ Field(opened /\ (\/ rec.Last_Email_Opened_Date__c = NULL
                            \/ eventData.lastOpenDate > rec.Last_Email_Opened_Date__c),
                 "Last_Email_Opened_Date__c", eventData.lastOpenDate)
        @@ Field(clicked, "Email_Click_Count__c",
                 OrZero(rec.Email_Click_Count__c) + eventData.totalClicks)
        @@ Field(clicked /\ (\/ rec.Last_Email_Clicked_Date__c = NULL
                             \/ eventData.lastClickDate > rec.Last_Email_Clicked_Date__c),
                 "Last_Email_Clicked_Date__c", eventData.lastClickDate)

\* leads.records.forEach(...): one update per Lead with event data
LeadUpdates(records, eventsByEmail) ==
    [id \in { i \in DOMAIN records : records[i].Email \in DOMAIN eventsByEmail } |->
        LeadUpdate(records[id], eventsByEmail[records[id].Email])]

(***************************************************************************)
(* The remote store.  A query answers with the matching records as they    *)
(* are when it is served; a bulk update writes the fields each update      *)
(* object carries.                                                         *)
(***************************************************************************)
QueryEmailMessage(messageIds) ==
    [id \in { i \in DOMAIN sfEmailMessage :
                 sfEmailMessage[i].MessageIdentifier \in messageIds } |->
        sfEmailMessage[id]]

\* The Lead query without "AND IsConverted = false".
QueryLead_AnyLead(emails) ==
    [id \in { i \in DOMAIN sfLead : sfLead[i].Email \in emails } |-> sfLead[id]]

QueryLead(emails) ==
    [id \in { i \in DOMAIN sfLead :
                 sfLead[i].Email \in emails /\ ~sfLead[i].IsConverted } |->
        sfLead[id]]

\* The record rec with the fields of update written to it.
Written(rec, update) ==
    [f \in DOMAIN rec |->
        IF f \in DOMAIN update THEN update[f] ELSE rec[f]]

ApplyUpdates(table, updates) ==
    [id \in DOMAIN table |->
        IF id \in DOMAIN updates THEN Written(table[id], updates[id]) ELSE table[id]]

(***************************************************************************)
(* processBatch after the detach.  A flush is at the await of the remote   *)
(* call named by its pc; calls lists the remote calls it has issued.  Each *)
(* action below is the completion of that call, resolved (ok) or rejected  *)
(* (~ok), followed by the code up to the next await.  A rejection is       *)
(* caught by the one catch around the whole body, which logs and returns.  *)
(***************************************************************************)
MessageIds(f) == DOMAIN EventsByMessageId(flushes[f].batch)

Emails(f) == DOMAIN EventsByEmail(flushes[f].batch)

AtAwait(f, call) == f \in 1..Len(flushes) /\ flushes[f].pc = call

\* batch.forEach(...): the two maps the flush works from.
Folded(fl) ==
    [fl EXCEPT !.eventsByMessageId = EventsByMessageId(fl.batch),
               !.eventsByEmail = EventsByEmail(fl.batch)]

Issue(fl, call) == [fl EXCEPT !.pc = call, !.calls = Append(@, call)]

\* catch (error): error is the rejection of the call the flush was awaiting.
Caught(fl) == [fl EXCEPT !.pc = "failed", !.error = fl.pc]

\* The login with a rejection that puts the detached batch back.
Login_Requeue(f, ok) ==
    /\ AtAwait(f, "login")
    /\ flushes' = [flushes EXCEPT ![f] =
          IF ~ok THEN Caught(@)
          ELSE IF MessageIds(f) # {} THEN Issue(Folded(@), "queryEmailMessage")
          ELSE Issue(Folded(@), "queryLead")]
    /\ eventBatch' = IF ok THEN eventBatch ELSE flushes[f].batch \o eventBatch
    /\ UNCHANGED << batchTimer, pending, sfEmailMessage, sfLead,
                    nPushed, nReq, lastBody, lastStatus >>

Login(f, ok) ==
    /\ AtAwait(f, "login")
    /\ flushes' = [flushes EXCEPT ![f] =
          IF ~ok THEN Caught(@)
          ELSE IF MessageIds(f) # {} THEN Issue(Folded(@), "queryEmailMessage")
          ELSE Issue(Folded(@), "queryLead")]
    /\ UNCHANGED << eventBatch, batchTimer, pending, sfEmailMessage, sfLead,
                    nPushed, nReq, lastBody, lastStatus >>

EmailMessageQuery(f, ok) ==
    /\ AtAwait(f, "queryEmailMessage")
    /\ LET records == QueryEmailMessage(MessageIds(f))
           updates == EmailMessageUpdates(records,
                          EventsByMessageId(flushes[f].batch))
       IN  flushes' = [flushes EXCEPT ![f] =
              IF ~ok THEN Caught(@)
              ELSE IF DOMAIN updates # {}
              THEN Issue([@ EXCEPT !.emailMessageUpdates = updates],
                         "updateEmailMessage")
              ELSE Issue(@, "queryLead")]
    /\ UNCHANGED << eventBatch, batchTimer, pending, sfEmailMessage, sfLead,
                    nPushed, nReq, lastBody, lastStatus >>

EmailMessageBulkUpdate(f, ok) ==
    /\ AtAwait(f, "updateEmailMessage")
    /\ IF ok
       THEN /\ sfEmailMessage' =
                  ApplyUpdates(sfEmailMessage, flushes[f].emailMessageUpdates)
            /\ flushes' = [flushes EXCEPT ![f] = Issue(@, "queryLead")]
       ELSE /\ flushes' = [flushes EXCEPT ![f] = Caught(@)]
            /\ UNCHANGED sfEmailMessage
    /\ UNCHANGED << eventBatch, batchTimer, pending, sfLead,
                    nPushed, nReq, lastBody, lastStatus >>

LeadQuery(f, ok) ==
    /\ AtAwait(f, "queryLead")
    /\ LET records == QueryLead(Emails(f))
           updates == LeadUpdates(records,
                          EventsByEmail(flushes[f].batch))
       IN  flushes' = [flushes EXCEPT ![f] =
              IF ~ok THEN Caught(@)
              ELSE IF DOMAIN updates # {}
              THEN Issue([@ EXCEPT !.leadsRead = records, !.leadUpdates = updates],
                         "updateLead")
              ELSE [@ EXCEPT !.leadsRead = records, !.pc = "done"]]
    /\ UNCHANGED << eventBatch, batchTimer, pending, sfEmailMessage, sfLead,
                    nPushed, nReq, lastBody, lastStatus >>

\* The Lead update with its values computed from the records as they are
\* when the update is written.
LeadBulkUpdate_FreshRead(f, ok) ==
    /\ AtAwait(f, "updateLead")
    /\ IF ok
       THEN /\ sfLead' = ApplyUpdates(sfLead,
                             LeadUpdates(QueryLead(Emails(f)),
                                         EventsByEmail(flushes[f].batch)))
            /\ flushes' = [flushes EXCEPT ![f].pc = "done"]
       ELSE /\ flushes' = [flushes EXCEPT ![f] = Caught(@)]
            /\ UNCHANGED sfLead
    /\ UNCHANGED << eventBatch, batchTimer, pending, sfEmailMessage,
                    nPushed, nReq, lastBody, lastStatus >>

LeadBulkUpdate(f, ok) ==
    /\ AtAwait(f, "updateLead")
    /\ IF ok
       THEN /\ sfLead' = ApplyUpdates(sfLead, flushes[f].leadUpdates)
            /\ flushes' = [flushes EXCEPT ![f].pc = "done"]
       ELSE /\ flushes' = [flushes EXCEPT ![f] = Caught(@)]
            /\ UNCHANGED sfLead
    /\ UNCHANGED << eventBatch, batchTimer, pending, sfEmailMessage,
                    nPushed, nReq, lastBody, lastStatus >>

(***************************************************************************)
(* The specification.                                                      *)
(***************************************************************************)
InitEmailMessage ==
    "E1" :> [MessageIdentifier |-> "m1",
             Open_Count__c |-> NULL, Click_Count__c |-> NULL,
             First_Opened_Date__c |-> NULL, Last_Clicked_Date__c |-> NULL,
             Links_Clicked__c |-> NullStr,
             Bounce_Date__c |-> NULL, Bounce_Reason__c |-> NullStr]

InitLead ==
    ("L1" :> [Email |-> "a@x.com", IsConverted |-> FALSE,
              Email_Open_Count__c |-> InitCount, Email_Click_Count__c |-> NULL,
              Last_Email_Opened_Date__c |-> NULL,
              Last_Email_Clicked_Date__c |-> NULL])
    @@
    ("L2" :> [Email |-> "b@x.com", IsConverted |-> TRUE,
              Email_Open_Count__c |-> NULL, Email_Click_Count__c |-> NULL,
              Last_Email_Opened_Date__c |-> NULL,
              Last_Email_Clicked_Date__c |-> NULL])
    @@
    ("L3" :> [Email |-> "a@x.com", IsConverted |-> FALSE,
              Email_Open_Count__c |-> NULL, Email_Click_Count__c |-> NULL,
              Last_Email_Opened_Date__c |-> NULL,
              Last_Email_Clicked_Date__c |-> NULL])

Init ==
    /\ eventBatch = << >>
    /\ batchTimer = NULL
    /\ pending = {}
    /\ flushes = << >>
    /\ sfEmailMessage = InitEmailMessage
    /\ sfLead = InitLead
    /\ nPushed = 0
    /\ nReq = 0
    /\ lastBody = "none"
    /\ lastStatus = 0

FlushStep ==
    \E f \in 1..Len(flushes), ok \in BOOLEAN :
        \/ Login(f, ok)
        \/ EmailMessageQuery(f, ok)
        \/ EmailMessageBulkUpdate(f, ok)
        \/ LeadQuery(f, ok)
        \/ LeadBulkUpdate(f, ok)

Next ==
    \/ \E b \in BodyIds : WebhookSendgrid(b)
    \/ \E h \in pending : TimerFire(h)
    \/ \E f \in 1..Len(flushes), ok \in BOOLEAN : Login(f, ok)
    \/ \E f \in 1..Len(flushes), ok \in BOOLEAN : EmailMessageQuery(f, ok)
    \/ \E f \in 1..Len(flushes), ok \in BOOLEAN : EmailMessageBulkUpdate(f, ok)
    \/ \E f \in 1..Len(flushes), ok \in BOOLEAN : LeadQuery(f, ok)
    \/ \E f \in 1..Len(flushes), ok \in BOOLEAN : LeadBulkUpdate(f, ok)

Spec == Init /\ [][Next]_vars

\* A scheduled timer fires and an awaited remote call resolves or rejects;
\* nothing obliges a further webhook request to arrive.
FairSpec ==
    /\ Spec
    /\ WF_vars(\E h \in pending : TimerFire(h))
    /\ WF_vars(FlushStep)

(***************************************************************************)
(* Reconciliation of one batch drawn from a set of events, against a       *)
(* message record drawn from a set of stored values.  A run starts in the  *)
(* state the process is in after one request posted the drawn events (the  *)
(* open batch holds them, the timer is armed) and goes on with the timer   *)
(* and the flush; no further request arrives.                              *)
(***************************************************************************)
RawBounce(email, event, timestamp, reason, sg_message_id) ==
    [RawEvent(email, event, timestamp, NullStr, sg_message_id)
        EXCEPT !.reason = reason]

X10 == "xxxxxxxxxx"
X50 == X10 \o X10 \o X10 \o X10 \o X10
\* A URL of 250 characters.
LongUrl == "/" \o X50 \o X50 \o X50 \o X50 \o SubSeq(X50, 1, 49)

FoldEvents ==
    { RawEvent("a@x.com", "open", 1, NullStr, "m1"),
      RawEvent("a@x.com", "open", 2, NullStr, "m1"),
      RawEvent("a@x.com", "click", 1, "/a", "m1"),
      RawEvent("a@x.com", "click", 2, "/b", "m1"),
      RawEvent("a@x.com", "click", 3, "", NullStr),
      RawBounce("a@x.com", "bounce", 1, "r1", "m1"),
      RawBounce("a@x.com", "bounce", 2, "r2", "m1"),
      RawBounce("a@x.com", "dropped", 2, "r3", "m1"),
      RawBounce("a@x.com", "dropped", 1, "r4", "m2"),
      RawEvent("b@x.com", "open", 3, NullStr, NullStr),
      RawEvent("b@x.com", "delivered", 1, NullStr, NullStr) }

\* Values of (Last_Clicked_Date__c, Links_Clicked__c) the message record
\* may hold when the batch is reconciled.
StoredClicks ==
    { << NULL, NullStr >>,
      << DateOf(2), "/a; /c" >>,
      << DateOf(2), "/a;/c" >>,
      << DateOf(1), LongUrl >> }

InitFold ==
    /\ \E n \in 1..MaxFoldLen : \E raw \in [1..n -> FoldEvents] :
          /\ eventBatch = [i \in 1..n |-> Canonical(raw[i], i)]
          /\ nPushed = n
    /\ batchTimer = 1
    /\ pending = {1}
    /\ flushes = << >>
    /\ \E stored \in StoredClicks :
          sfEmailMessage = [id \in DOMAIN InitEmailMessage |->
              [InitEmailMessage[id] EXCEPT !.Last_Clicked_Date__c = stored[1],
                                           !.Links_Clicked__c = stored[2]]]
    /\ sfLead = InitLead
    /\ nReq = 1
    /\ lastBody = "array"
    /\ lastStatus = 200

NextFold ==
    \/ \E h \in pending : TimerFire(h)
    \/ \E f \in 1..Len(flushes), ok \in BOOLEAN : Login(f, ok)
    \/ \E f \in 1..Len(flushes), ok \in BOOLEAN : EmailMessageQuery(f, ok)
    \/ \E f \in 1..Len(flushes), ok \in BOOLEAN : EmailMessageBulkUpdate(f, ok)
    \/ \E f \in 1..Len(flushes), ok \in BOOLEAN : LeadQuery(f, ok)
    \/ \E f \in 1..Len(flushes), ok \in BOOLEAN : LeadBulkUpdate(f, ok)

FoldSpec == InitFold /\ [][NextFold]_vars

(***************************************************************************)
(* Properties.                                                             *)
(***************************************************************************)
Finished(f) == flushes[f].pc \in {"done", "failed"}

\* The batches detached so far, one after the other, then the open batch.
RECURSIVE Detached(_)
Detached(n) == IF n = 0 THEN << >> ELSE Detached(n - 1) \o flushes[n].batch

AllPushed == Detached(Len(flushes)) \o eventBatch

\* A step of a webhook request.
RequestStep == nReq' = nReq + 1

\* C1: the detached batches, in the order of their detach, followed by the
\* open batch are exactly the events pushed, in the order of their push, each
\* once; and a detached batch never changes, so an event pushed while a flush
\* is in flight is in the open batch and goes to a later batch.
C1_BatchesPartitionPushes ==
    /\ [](/\ Len(AllPushed) = nPushed
          /\ \A i \in 1..Len(AllPushed) : AllPushed[i].seq = i)
    /\ [][\A f \in 1..Len(flushes) :
             /\ Len(flushes') >= f
             /\ flushes'[f].batch = flushes[f].batch]_vars

\* Events pushed while the first flush was in flight were detached as the
\* second batch, the first flush still being in flight.
C1_Witness ==
    /\ Len(flushes) = 2
    /\ ~Finished(1)
    /\ flushes[2].batch[1].seq = Len(flushes[1].batch) + 1
    /\ eventBatch = << >>

\* C2: an event pushed by a request that was answered 200 is eventually
\* detached, with no further request needed.
C2_PushedEventuallyDetached ==
    (lastStatus = 200 /\ eventBatch # << >>) ~> (eventBatch = << >>)

\* C3: a request whose pushes bring the open batch to BATCH_SIZE or more
\* detaches it within the request: a new flush exists, the open batch is
\* empty, no timer is pending and batchTimer is null after the request.
C3_ThresholdFlushesInRequest ==
    [][(/\ RequestStep
        /\ IsArray(lastBody')
        /\ Len(eventBatch) + NumPushed(lastBody') >= BATCH_SIZE)
       => (/\ Len(flushes') = Len(flushes) + 1
           /\ eventBatch' = << >>
           /\ pending' = {}
           /\ batchTimer' = NULL)]_vars

\* The threshold flush for the requests whose forEach runs to its end
\* (answered 200).
ThresholdFlushesWhenAnswered200 ==
    [][(/\ RequestStep
        /\ lastStatus' = 200
        /\ Len(eventBatch) + NumPushed(lastBody') >= BATCH_SIZE)
       => (/\ Len(flushes') = Len(flushes) + 1
           /\ eventBatch' = << >>
           /\ pending' = {}
           /\ batchTimer' = NULL)]_vars

\* C4: no detached batch holds more than BATCH_SIZE events.
C4_BatchAtMostBatchSize ==
    \A f \in 1..Len(flushes) : Len(flushes[f].batch) <= BATCH_SIZE

CounterFields ==
    {"Open_Count__c", "Click_Count__c", "Email_Open_Count__c", "Email_Click_Count__c"}

NeverDecreases(table, table2) ==
    \A id \in DOMAIN table : \A c \in CounterFields \cap DOMAIN table[id] :
        OrZero(table2[id][c]) >= OrZero(table[id][c])

\* C5: no step writes to a counter of an EmailMessage or Lead record a value
\* smaller than the one the record holds.
C5_CountersNeverDecrease ==
    [][NeverDecreases(sfEmailMessage, sfEmailMessage')
       /\ NeverDecreases(sfLead, sfLead')]_vars

\* The flushes whose Lead update wrote counter c of Lead id.
Wrote(id, c) ==
    { f \in 1..Len(flushes) :
         /\ flushes[f].pc = "done"
         /\ id \in DOMAIN flushes[f].leadUpdates
         /\ c \in DOMAIN flushes[f].leadUpdates[id] }

\* What flush f added to the value it had read.
Added(f, id, c) ==
    flushes[f].leadUpdates[id][c] - OrZero(flushes[f].leadsRead[id][c])

RECURSIVE SumAdded(_, _, _)
SumAdded(n, id, c) ==
    IF n = 0 THEN 0
    ELSE SumAdded(n - 1, id, c) + (IF n \in Wrote(id, c) THEN Added(n, id, c) ELSE 0)

\* Two flushes that wrote counter c of Lead id after reading the same value
\* of it: each had read before the other wrote.
Raced(id, c) ==
    \E f1, f2 \in Wrote(id, c) :
        /\ f1 # f2
        /\ flushes[f1].leadsRead[id][c] = flushes[f2].leadsRead[id][c]

\* C6: when two flushes have raced on a counter of a Lead, the counter is
\* less than its initial value plus what the flushes that wrote it added: an
\* update is lost.
C6_RaceLosesUpdate ==
    \A id \in DOMAIN sfLead : \A c \in {"Email_Open_Count__c", "Email_Click_Count__c"} :
        Raced(id, c) =>
            OrZero(sfLead[id][c]) < OrZero(InitLead[id][c]) + SumAdded(Len(flushes), id, c)

C6_Witness == Raced("L1", "Email_Open_Count__c")

\* C7: a flush that has ended, and whose login had succeeded, has issued the
\* Lead query, whatever became of its EmailMessage query and update.
C7_LeadFlowRunsAfterMessageFailure ==
    \A f \in 1..Len(flushes) :
        (Finished(f) /\ flushes[f].error # "login")
            => \E i \in 1..Len(flushes[f].calls) : flushes[f].calls[i] = "queryLead"

SeqsOf(batch) == { batch[i].seq : i \in 1..Len(batch) }

LoginRejected(f) == flushes[f].pc = "login" /\ flushes'[f].pc = "failed"

\* C8: the step at which the login of a flush is rejected issues no call and
\* leaves the open batch, the timer and the remote records as they are; and a
\* flush whose login was rejected has ended having issued the login only,
\* none of its events being in the open batch or in another batch.
C8_LoginFailureDropsBatch ==
    /\ [][\A f \in 1..Len(flushes) :
             LoginRejected(f) =>
                 /\ flushes'[f].calls = << "login" >>
                 /\ UNCHANGED << eventBatch, batchTimer, pending,
                                 sfEmailMessage, sfLead >>]_vars
    /\ [](\A f \in 1..Len(flushes) :
             flushes[f].error = "login" =>
                 /\ flushes[f].pc = "failed"
                 /\ flushes[f].calls = << "login" >>
                 /\ SeqsOf(flushes[f].batch) \cap SeqsOf(eventBatch) = {}
                 /\ \A g \in 1..Len(flushes) :
                       g # f => SeqsOf(flushes[f].batch) \cap SeqsOf(flushes[g].batch) = {})

\* The login of the first flush was rejected and a later batch was detached.
C8_Witness ==
    /\ Len(flushes) = 2
    /\ flushes[1].error = "login"
    /\ flushes[2].pc = "done"

\* C9: a request whose body is not an array is answered 400 and changes
\* neither the open batch nor the timer and starts no flush.
C9_NonArrayRejected ==
    [][(RequestStep /\ ~IsArray(lastBody'))
       => (/\ lastStatus' = 400
           /\ UNCHANGED << eventBatch, batchTimer, pending, flushes, nPushed >>)]_vars

\* A non-array body was rejected while events were in the open batch.
C9_Witness ==
    /\ lastBody = "object"
    /\ lastStatus = 400
    /\ eventBatch # << >>
    /\ pending # {}

\* C10: a request with an array body whose pushes all succeed is answered 200
\* whatever flushes are in flight or have failed, and the flush it starts is
\* still at its login when the answer is given.
C10_ResponseIgnoresFlushes ==
    [][(RequestStep /\ IsArray(lastBody') /\ ~Throws(lastBody'))
       => (/\ lastStatus' = 200
           /\ Len(flushes') > Len(flushes) => flushes'[Len(flushes')].pc = "login")]_vars

\* The last request filled the batch and was answered 200; the flush it
\* started failed afterwards, another flush having failed before the request.
C10_Witness ==
    /\ lastStatus = 200
    /\ Len(flushes) = 2
    /\ flushes[1].pc = "failed"
    /\ flushes[2].pc = "failed"
    /\ flushes[2].error # "login"

\* The step in which flush f's EmailMessage update is written to the store.
EmailMessageWritten(f) ==
    /\ flushes[f].pc = "updateEmailMessage"
    /\ flushes'[f].pc = "queryLead"

\* Flush f's EmailMessage update carries field c of record id.
CarriesField(f, id, c) ==
    /\ id \in DOMAIN flushes[f].emailMessageUpdates
    /\ c \in DOMAIN flushes[f].emailMessageUpdates[id]

\* C11: once an EmailMessage record's First_Opened_Date__c holds a value, no
\* flush, however the flushes interleave, writes that field again.
C11_FirstOpenedWrittenOnlyIfUnset ==
    [][\A f \in 1..Len(flushes) : \A id \in DOMAIN sfEmailMessage :
          (EmailMessageWritten(f) /\ CarriesField(f, id, "First_Opened_Date__c"))
          => sfEmailMessage[id].First_Opened_Date__c = NULL]_vars

\* The click events of a batch that carry the message id of record id.
ClicksOf(batch, id) ==
    { i \in 1..Len(batch) :
        /\ batch[i].eventType = "click"
        /\ batch[i].sg_message_id = sfEmailMessage[id].MessageIdentifier }

\* C12: a reconciliation never replaces a stored Last_Clicked_Date__c by an
\* earlier timestamp, and the value it writes is the maximum click timestamp
\* of the batch for that message id.
C12_LastClickedNeverEarlier ==
    [][\A f \in 1..Len(flushes) : \A id \in DOMAIN sfEmailMessage :
          (EmailMessageWritten(f) /\ CarriesField(f, id, "Last_Clicked_Date__c"))
          => /\ sfEmailMessage'[id].Last_Clicked_Date__c
                   >= sfEmailMessage[id].Last_Clicked_Date__c
             /\ \E i \in ClicksOf(flushes[f].batch, id) :
                   /\ sfEmailMessage'[id].Last_Clicked_Date__c
                         = flushes[f].batch[i].timestamp * 1000
                   /\ \A j \in ClicksOf(flushes[f].batch, id) :
                         flushes[f].batch[j].timestamp
                            <= flushes[f].batch[i].timestamp]_vars

\* The second half of the above alone: the value written is the maximum
\* click timestamp of the batch for that message id.
LastClickedIsBatchMaximum ==
    [][\A f \in 1..Len(flushes) : \A id \in DOMAIN sfEmailMessage :
          (EmailMessageWritten(f) /\ CarriesField(f, id, "Last_Clicked_Date__c"))
          => \E i \in ClicksOf(flushes[f].batch, id) :
                /\ sfEmailMessage'[id].Last_Clicked_Date__c
                      = flushes[f].batch[i].timestamp * 1000
                /\ \A j \in ClicksOf(flushes[f].batch, id) :
                      flushes[f].batch[j].timestamp
                         <= flushes[f].batch[i].timestamp]_vars

\* The Lead records to which flush f added the counts of email e.
LeadsCounted(f, e) ==
    { id \in DOMAIN flushes[f].leadUpdates : flushes[f].leadsRead[id].Email = e }

\* C13: in each flush the aggregate counts of an email of the batch are added
\* to at most one remote record (the only kind of person-level record this
\* flow writes is Lead).
C13_OneTargetPerEmail ==
    \A f \in 1..Len(flushes) :
        flushes[f].pc = "done"
        => \A e \in DOMAIN flushes[f].eventsByEmail :
              Cardinality(LeadsCounted(f, e)) <= 1

\* The fold of flush f's batch has been made (login resolved).
HasFolded(f) == flushes[f].pc \notin {"login"} /\ flushes[f].error # "login"

\* The bounce and dropped events of a batch that satisfy the test on its
\* events given as the set of their positions.
BouncesAt(batch, positions) ==
    { i \in positions : batch[i].eventType \in {"bounce", "dropped"} }

\* Among the positions B, the first in batch order with the maximum timestamp.
FirstLatest(batch, B) ==
    CHOOSE i \in B :
        /\ \A j \in B : batch[j].timestamp <= batch[i].timestamp
        /\ \A j \in B : batch[j].timestamp = batch[i].timestamp => i <= j

PositionsOfEmail(batch, e) == { i \in 1..Len(batch) : batch[i].email = e }

PositionsOfMessage(batch, m) ==
    { i \in 1..Len(batch) : batch[i].sg_message_id = m }

\* C14: bounce and dropped events are folded alike, and the per-email last
\* bounce timestamp and reason are those of the first event in batch order
\* among the bounce/dropped events of that email with the maximum timestamp;
\* likewise the bounce record of each message id.
C14_BounceIsFirstLatest ==
    \A f \in 1..Len(flushes) :
        HasFolded(f)
        => LET batch == flushes[f].batch
           IN  /\ \A e \in DOMAIN flushes[f].eventsByEmail :
                     LET B == BouncesAt(batch, PositionsOfEmail(batch, e))
                         agg == flushes[f].eventsByEmail[e]
                     IN  IF B = {}
                         THEN agg.lastBounceDate = NULL /\ agg.bounceReason = NullStr
                         ELSE /\ agg.lastBounceDate
                                    = batch[FirstLatest(batch, B)].timestamp * 1000
                              /\ agg.bounceReason
                                    = batch[FirstLatest(batch, B)].reason
               /\ \A m \in DOMAIN flushes[f].eventsByMessageId :
                     LET B == BouncesAt(batch, PositionsOfMessage(batch, m))
                         agg == flushes[f].eventsByMessageId[m]
                     IN  IF B = {}
                         THEN agg.bounce = [timestamp |-> NULL, reason |-> NullStr]
                         ELSE /\ agg.bounce.timestamp
                                    = batch[FirstLatest(batch, B)].timestamp * 1000
                              /\ agg.bounce.reason
                                    = batch[FirstLatest(batch, B)].reason

\* A batch with a bounce and a dropped event of one email and one message at
\* the same timestamp, the bounce first, has been folded: the bounce is kept.
C14_Witness ==
    \E f \in 1..Len(flushes) :
        /\ HasFolded(f)
        /\ Len(flushes[f].batch) = 2
        /\ flushes[f].batch[1].eventType = "bounce"
        /\ flushes[f].batch[2].eventType = "dropped"
        /\ flushes[f].batch[1].timestamp = flushes[f].batch[2].timestamp
        /\ flushes[f].batch[1].sg_message_id = flushes[f].batch[2].sg_message_id
        /\ flushes[f].eventsByEmail["a@x.com"].bounceReason
              = flushes[f].batch[1].reason
        /\ flushes[f].eventsByMessageId["m1"].bounce.reason
              = flushes[f].batch[1].reason

\* The events of a type among the given positions of a batch.
EventsOfType(batch, positions, type) ==
    { i \in positions : batch[i].eventType = type }

\* The largest timestamp, as a date, of the events at the positions P, or
\* NULL if there is none.
LatestDate(batch, P) ==
    IF P = {} THEN NULL
    ELSE batch[CHOOSE i \in P :
                  \A j \in P : batch[j].timestamp <= batch[i].timestamp].timestamp
         * 1000


\* C15: for every batch and every email in it, the per-email aggregate's
\* totalOpens (totalClicks) is the number of open (click) events of that
\* email in the batch and lastOpenDate (lastClickDate) is the maximum
\* timestamp among them, whatever the order of the events.
C15_EmailTotalsAndLastDates ==
    \A f \in 1..Len(flushes) :
        HasFolded(f)
        => LET batch == flushes[f].batch
           IN  /\ DOMAIN flushes[f].eventsByEmail
                     = { batch[i].email : i \in 1..Len(batch) }
               /\ \A e \in DOMAIN flushes[f].eventsByEmail :
                     LET P == PositionsOfEmail(batch, e)
                         opens == EventsOfType(batch, P, "open")
                         clicks == EventsOfType(batch, P, "click")
                         agg == flushes[f].eventsByEmail[e]
                     IN  /\ agg.totalOpens = Cardinality(opens)
                         /\ agg.totalClicks = Cardinality(clicks)
                         /\ agg.lastOpenDate = LatestDate(batch, opens)
                         /\ agg.lastClickDate = LatestDate(batch, clicks)

\* A batch of two opens of one email, the later one first, has been folded:
\* two opens counted and the later date kept.
C15_Witness ==
    \E f \in 1..Len(flushes) :
        /\ HasFolded(f)
        /\ Len(flushes[f].batch) = 2
        /\ flushes[f].batch[1].eventType = "open"
        /\ flushes[f].batch[2].eventType = "open"
        /\ flushes[f].batch[1].email = flushes[f].batch[2].email
        /\ flushes[f].batch[1].timestamp > flushes[f].batch[2].timestamp
        /\ flushes[f].eventsByEmail[flushes[f].batch[1].email].totalOpens = 2
        /\ flushes[f].eventsByEmail[flushes[f].batch[1].email].lastOpenDate
              = flushes[f].batch[1].timestamp * 1000


\* Flush f has issued the remote call.
Called(f, call) == \E i \in 1..Len(flushes[f].calls) : flushes[f].calls[i] = call

NoMessageId(batch) == \A i \in 1..Len(batch) : batch[i].sg_message_id = NullStr

\* C16: a batch in which no event has sg_message_id produces no per-message
\* aggregate and issues no EmailMessage query or update; it still produces
\* the per-email aggregates, and the Lead query is issued.
C16_NoMessageIdOnlyPersonLevel ==
    \A f \in 1..Len(flushes) :
        (HasFolded(f) /\ NoMessageId(flushes[f].batch))
        => /\ DOMAIN flushes[f].eventsByMessageId = {}
           /\ ~Called(f, "queryEmailMessage")
           /\ ~Called(f, "updateEmailMessage")
           /\ DOMAIN flushes[f].emailMessageUpdates = {}
           /\ DOMAIN flushes[f].eventsByEmail
                 = { flushes[f].batch[i].email : i \in 1..Len(flushes[f].batch) }
           /\ Called(f, "queryLead")

\* A batch without any message id has been reconciled to the end: the click
\* of a@x.com it held was added to the Lead, no EmailMessage call was made.
C16_Witness ==
    \E f \in 1..Len(flushes) :
        /\ NoMessageId(flushes[f].batch)
        /\ flushes[f].pc = "done"
        /\ flushes[f].calls = << "login", "queryLead", "updateLead" >>
        /\ flushes[f].eventsByEmail["a@x.com"].totalClicks = 1
        /\ sfLead["L1"].Email_Click_Count__c = 1


\* C17: after the fold, the aggregate of an email with at least one click
\* holds, as lastClickUrl, the url of that email's most recent click.
C17_EmailAggregateHasLastClickUrl ==
    \A f \in 1..Len(flushes) :
        HasFolded(f)
        => LET batch == flushes[f].batch
           IN  \A e \in DOMAIN flushes[f].eventsByEmail :
                  LET clicks == EventsOfType(batch, PositionsOfEmail(batch, e), "click")
                      agg == flushes[f].eventsByEmail[e]
                  IN  clicks # {}
                      => /\ "lastClickUrl" \in DOMAIN agg
                         /\ \E i \in clicks :
                               /\ agg["lastClickUrl"] = batch[i].url
                               /\ \A j \in clicks :
                                     batch[j].timestamp <= batch[i].timestamp


\* Flush f is about to write the clicked-URL list of record id: its update,
\* built from the record as it still is, awaits the bulk update call.
WritesLinks(f, id) ==
    /\ flushes[f].pc = "updateEmailMessage"
    /\ CarriesField(f, id, "Links_Clicked__c")

\* The urls (not null, not empty) of the batch's clicks of record id.
UrlsClicked(batch, id) ==
    { batch[i].url : i \in ClicksOf(batch, id) } \ { NullStr, "" }

\* The lists a reader may take for "/a", "/b", "/c", each once: in any
\* order, separated by ";" or by "; ".
ListsOfABC ==
    { u[1] \o sep \o u[2] \o sep \o u[3] :
        u \in { v \in [1..3 -> {"/a", "/b", "/c"}] :
                  \A i, j \in 1..3 : v[i] = v[j] => i = j },
        sep \in {";", "; "} }

Range(list) == { list[i] : i \in 1..Len(list) }

EachOnce(list) == \A i, j \in 1..Len(list) : list[i] = list[j] => i = j

MatchingLeads(batch) ==
    { id \in DOMAIN sfLead :
        /\ ~sfLead[id].IsConverted
        /\ \E i \in 1..Len(batch) : batch[i].email = sfLead[id].Email }

\* C19: a flush whose batch has no email of an unconverted Lead issues no
\* Lead update call and ends without an error once its Lead query resolved;
\* and the Lead update of any flush has only records its Lead query returned,
\* which are unconverted Leads with an email of the batch.
C19_NoLeadNoUpdate ==
    \A f \in 1..Len(flushes) :
        /\ (MatchingLeads(flushes[f].batch) = {})
           => /\ ~Called(f, "updateLead")
              /\ DOMAIN flushes[f].leadUpdates = {}
              /\ (Called(f, "queryLead") /\ flushes[f].pc # "queryLead")
                 => \/ flushes[f].pc = "done"
                    \/ flushes[f].pc = "failed" /\ flushes[f].error = "queryLead"
        /\ DOMAIN flushes[f].leadUpdates \subseteq DOMAIN flushes[f].leadsRead
        /\ DOMAIN flushes[f].leadsRead \subseteq MatchingLeads(flushes[f].batch)

\* A batch whose only email belongs to a converted Lead has been reconciled
\* to the end: the Lead query was the last call.
C19_Witness ==
    \E f \in 1..Len(flushes) :
        /\ MatchingLeads(flushes[f].batch) = {}
        /\ flushes[f].pc = "done"
        /\ flushes[f].error = "none"
        /\ flushes[f].calls[Len(flushes[f].calls)] = "queryLead"
        /\ \E i \in 1..Len(flushes[f].batch) : flushes[f].batch[i].email = "b@x.com"


\* A step in which a timer fires: processBatch is invoked outside a request.
TimerStep == pending' # pending /\ nReq' = nReq

\* C20: processBatch invoked while the open batch is empty detaches nothing,
\* issues no remote call and leaves eventBatch, batchTimer and the remote
\* store as they are; and an invocation that detaches a batch detaches one and
\* leaves the open batch empty, so that one made right after it detaches
\* nothing.
C20_EmptyFlushIsNoOp ==
    /\ [][(TimerStep /\ eventBatch = << >>)
          => UNCHANGED << eventBatch, batchTimer, flushes,
                          sfEmailMessage, sfLead >>]_vars
    /\ [][Len(flushes') # Len(flushes)
          => /\ Len(flushes') = Len(flushes) + 1
             /\ flushes'[Len(flushes')].batch # << >>
             /\ eventBatch' = << >>]_vars

\* A timer has fired on the empty open batch: nothing was detached and the
\* handle of the fired timer is still in batchTimer.
C20_Witness ==
    /\ batchTimer # NULL
    /\ batchTimer \notin pending
    /\ eventBatch = << >>
    /\ flushes = << >>


\* The step in which flush f's Lead update is written to the store.
LeadWritten(f) ==
    /\ flushes[f].pc = "updateLead"
    /\ flushes'[f].pc = "done"

LastActivityFields == {"Last_Email_Opened_Date__c", "Last_Email_Clicked_Date__c"}

\* C21: a stored Last_Email_Opened_Date__c or Last_Email_Clicked_Date__c of a
\* Lead is never replaced by an equal or earlier timestamp, however the
\* flushes interleave: a flush that writes one of them over a stored value
\* writes a strictly later one.
C21_LeadDatesOnlyStrictlyNewer ==
    [][\A f \in 1..Len(flushes) : \A id \in DOMAIN sfLead :
          \A c \in LastActivityFields :
             (/\ LeadWritten(f)
              /\ id \in DOMAIN flushes[f].leadUpdates
              /\ c \in DOMAIN flushes[f].leadUpdates[id]
              /\ sfLead[id][c] # NULL)
             => sfLead'[id][c] > sfLead[id][c]]_vars

\* The same on the record as the flush read it: the date a flush writes is
\* strictly later than the one its Lead query returned.
LeadDatesNewerThanRead ==
    \A f \in 1..Len(flushes) : \A id \in DOMAIN flushes[f].leadUpdates :
        \A c \in LastActivityFields :
           (c \in DOMAIN flushes[f].leadUpdates[id]
            /\ flushes[f].leadsRead[id][c] # NULL)
           => flushes[f].leadUpdates[id][c] > flushes[f].leadsRead[id][c]


\* C22: whenever no handler is running (every state is such a state: a
\* handler runs to its end in one step), a non-empty open batch has a flush
\* timer pending that will call processBatch.
C22_OpenBatchHasPendingTimer ==
    eventBatch # << >> => pending # {}

\* The same for the requests answered 200 while batchTimer holds no handle of
\* a fired timer.
OpenBatchHasPendingTimerUnlessStaleOr500 ==
    (/\ eventBatch # << >>
     /\ lastStatus = 200
     /\ batchTimer = NULL \/ batchTimer \in pending)
    => pending # {}

\* C23: at most one flush timer is pending, and batchTimer is null exactly
\* when no timer is pending.
C23_OneTimerAndHandleInStep ==
    /\ Cardinality(pending) <= 1
    /\ batchTimer = NULL <=> pending = {}

\* The part of the above that holds: at most one timer is pending, a pending
\* timer is the one batchTimer refers to, and a null batchTimer means none is
\* pending.
AtMostOneTimerPending ==
    /\ Cardinality(pending) <= 1
    /\ pending \subseteq {batchTimer}
    /\ batchTimer = NULL => pending = {}

=============================================================================
